---- MODULE Spec2Model ----
(***************************************************************************)
(* Model of robosat/tools/download.py: main() reads a tile list, starts a  *)
(* thread pool of args.rate workers, maps worker() over the tiles and      *)
(* consumes the results in submission order.                               *)
(*                                                                         *)
(* Time is counted in whole seconds.  Instead of the absolute monotonic    *)
(* clock the model keeps, for every running task, the time elapsed since   *)
(* its `tick` (capped at time_per_worker, the only value it is compared    *)
(* with), and the number of requests issued in the current second.         *)
(***************************************************************************)
EXTENDS Integers, Sequences, FiniteSets

\* ---- bounds of the model ------------------------------------------------
MaxTiles == 2
Zoom == 1
MaxRate == 2
MaxResolves == 2

VARIABLES
    args,        \* parsed command line: type, rate, url (the template's placeholders)
    csv,         \* the rows of the tile list file, as read by tiles_from_csv
    tiles,       \* main's `tiles`: the tile objects, shared with the workers
    files,       \* paths out/z/x/y.ext that exist as files
    files0,      \* the files that existed when the run started
    dirs,        \* directories out/z/x that exist
    pc,          \* position of every worker(tile) task
    elapsed,     \* per task: seconds since its `tick`, capped at time_per_worker
    path,        \* per task: local `path`
    url,         \* per task: local `url`
    result,      \* per task: the tuple worker() returned
    requests,    \* per task: number of HTTP requests issued for it
    reqsNow,     \* number of HTTP requests issued during the current second
    wrote,       \* per task: what image.save left at `path`
    finishOrder, \* indices of the tasks that returned or raised, in the order they ended
    site,        \* per task: the return statement of worker that ended it
    sent,        \* per task: the URL of the request issued for it
    updated,     \* per task: number of progress.update() calls it executed
    pn,          \* per task: the value of progress.n read by its progress.update()
    progress,    \* tqdm counter
    consumed,    \* indices of the results the for loop of main has taken, in order
    already_dl,  \* main's `already_dl`
    log,         \* lines logged by this run
    mainpc,      \* position of main
    preview,     \* the tile values handed to leaflet()
    prevFetched, \* TRUE iff this run follows a run in which every tile was fetched
    rtile,       \* resolver harness: a tile object
    rres         \* resolver harness: outcomes of the successive resolutions of rtile

vars == <<args, csv, tiles, files, files0, dirs, pc, elapsed, path, url, result,
          requests, reqsNow, wrote, finishOrder, site, sent, updated, pn, progress,
          consumed, already_dl, log, mainpc, preview, prevFetched, rtile, rres>>

taskVars == <<pc, elapsed, path, url, result, requests, wrote, finishOrder, site, sent,
              updated, pn>>
harnessVars == <<rtile, rres>>

\* ---- values ---------------------------------------------------------------
Types == {"XYZ", "TMS", "WMS", "OTHER"}
Templates == {"xyz", "bbox"}

\* the tiles of the lists: the top and the bottom tile of column 0 at zoom Zoom, which the
\* TMS flip maps to each other
TileSet == {[x |-> 0, y |-> y, z |-> Zoom] : y \in {0, 2^Zoom - 1}}

None == [keys |-> "none", v |-> <<>>]
NoPath == <<>>

Tasks == 1..Len(csv)

\* ---- pure helpers ---------------------------------------------------------
\* os.path.join(args.out, z, x, "{}.{}".format(y, args.ext))
TilePathWithoutY(tile) == <<tile.z, tile.x, 0>>
TilePath(tile) == <<tile.z, tile.x, tile.y>>

\* os.path.join(args.out, z, x)
DirOf(p) == <<p[1], p[2]>>

\* os.path.isfile(path)
isfileNever(p, fs) == FALSE
isfile(p, fs) == p \in fs

\* tile_to_bbox: the corners of the tile in tile space, on the grid of zoom Zoom + 1
tile_to_bbox(tile) ==
    LET s == 2^((Zoom + 1) - tile.z)
    IN  <<tile.x * s, (tile.y + 1) * s, (tile.x + 1) * s, tile.y * s>>

\* str.format(**kwargs): KeyError when the template names a placeholder that is not given
format(template, given, values) ==
    IF template = given THEN [raised |-> FALSE, url |-> [keys |-> given, v |-> values]]
    ELSE [raised |-> TRUE, url |-> None]

\* lines 63-72 of worker: the tile object after the branch, and what the branch produced
ResolveURLDefaultXYZ(tile, type, template) ==
    IF type = "TMS" THEN
        LET flipped == [tile EXCEPT !.y = (2^(tile.z)) - tile.y - 1]
            f == format(template, "xyz", <<flipped.x, flipped.y, flipped.z>>)
        IN  [tile |-> flipped, url |-> f.url,
             status |-> IF f.raised THEN "KeyError" ELSE "ok"]
    ELSE IF type = "WMS" THEN
        LET f == format(template, "bbox", tile_to_bbox(tile))
        IN  [tile |-> tile, url |-> f.url,
             status |-> IF f.raised THEN "KeyError" ELSE "ok"]
    ELSE
        LET f == format(template, "xyz", <<tile.x, tile.y, tile.z>>)
        IN  [tile |-> tile, url |-> f.url,
             status |-> IF f.raised THEN "KeyError" ELSE "ok"]
ResolveURL(tile, type, template) ==
    IF type = "XYZ" THEN
        LET f == format(template, "xyz", <<tile.x, tile.y, tile.z>>)
        IN  [tile |-> tile, url |-> f.url,
             status |-> IF f.raised THEN "KeyError" ELSE "ok"]
    ELSE IF type = "TMS" THEN
        LET flipped == [tile EXCEPT !.y = (2^(tile.z)) - tile.y - 1]
            f == format(template, "xyz", <<flipped.x, flipped.y, flipped.z>>)
        IN  [tile |-> flipped, url |-> f.url,
             status |-> IF f.raised THEN "KeyError" ELSE "ok"]
    ELSE IF type = "WMS" THEN
        LET f == format(template, "bbox", tile_to_bbox(tile))
        IN  [tile |-> tile, url |-> f.url,
             status |-> IF f.raised THEN "KeyError" ELSE "ok"]
    ELSE [tile |-> tile, url |-> None, status |-> "unsupported"]

num_workersPlusOne == args.rate + 1
num_workers == args.rate
time_per_worker == num_workers \div args.rate

Running == {i \in Tasks : pc[i] \in {"fetch", "save", "pace", "update"}}
Finished == {i \in Tasks : pc[i] \in {"returned", "raised", "cancelled"}}

\* the outcome kinds of the tuple (tile, url, ok)
AlreadyPresent(r) == r.url = None /\ r.ok
Fetched(r) == r.url # None /\ r.ok
Failed(r) == ~r.ok

NoResult == [tile |-> 0, url |-> None, ok |-> FALSE]

\* ---- initial state --------------------------------------------------------
TileLists == UNION {[1..n -> TileSet] : n \in 0..MaxTiles}

FreshTasks(n) ==
    /\ pc = [i \in 1..n |-> "pending"]
    /\ elapsed = [i \in 1..n |-> 0]
    /\ path = [i \in 1..n |-> NoPath]
    /\ url = [i \in 1..n |-> None]
    /\ result = [i \in 1..n |-> NoResult]
    /\ requests = [i \in 1..n |-> 0]
    /\ wrote = [i \in 1..n |-> "nothing"]
    /\ finishOrder = <<>>
    /\ site = [i \in 1..n |-> "none"]
    /\ sent = [i \in 1..n |-> None]
    /\ updated = [i \in 1..n |-> 0]
    /\ pn = [i \in 1..n |-> 0]

BeginLine == [kind |-> "Begin", tile |-> 0, url |-> None, n |-> 0]

Init ==
    /\ args \in [type : Types, rate : 1..MaxRate, url : Templates]
    /\ csv \in TileLists
    /\ tiles = csv
    /\ files0 \in SUBSET {TilePath(csv[i]) : i \in 1..Len(csv)}
    /\ files = files0
    /\ dirs = {DirOf(p) : p \in files0}
    /\ FreshTasks(Len(csv))
    /\ reqsNow = 0
    /\ progress = 0
    /\ consumed = <<>>
    /\ already_dl = 0
    /\ log = <<BeginLine>>
    /\ mainpc = "loop"
    /\ preview = <<>>
    /\ prevFetched = FALSE
    /\ rtile = [x |-> 0, y |-> 0, z |-> 0]
    /\ rres = <<>>

\* ---- worker(tile) -----------------------------------------------------------
\* os.makedirs(dir, exist_ok=True): succeeds on an existing directory, and may fail
\* with OSError when it has to create one
makedirs(d, ds) == IF d \in ds THEN {"ok"} ELSE {"ok", "OSError"}

Return(i, r) ==
    /\ pc' = [pc EXCEPT ![i] = "returned"]
    /\ result' = [result EXCEPT ![i] = r]

Raise(i) ==
    /\ pc' = [pc EXCEPT ![i] = "raised"]
    /\ UNCHANGED result

\* bookkeeping: the task is appended to finishOrder by the step that ends it
Ends(i) ==
    finishOrder' = IF pc'[i] \in {"returned", "raised"} THEN Append(finishOrder, i)
                   ELSE finishOrder

\* the return statements of worker: line 61 "present", line 72 "unsupported", line 76
\* "failed", line 82 "oserror", line 94 "fetched".  ProgressAt(s) is the number of
\* progress.update() calls on the path that ends at s: the only call is line 92
ProgressAtEveryReturn(s) == 1
ProgressAtNoReturn(s) == 0
ProgressAt(s) == IF s = "fetched" THEN 1 ELSE 0

\* the tuple returned at lines 76 and 82
FailedWithoutURL(i, u) == [tile |-> i, url |-> None, ok |-> FALSE]
FailedWith(i, u) == [tile |-> i, url |-> u, ok |-> FALSE]

\* a return statement that is not line 94
ReturnAt(i, s, r) ==
    /\ Return(i, r)
    /\ site' = [site EXCEPT ![i] = s]
    /\ progress' = progress + ProgressAt(s)
    /\ updated' = [updated EXCEPT ![i] = @ + ProgressAt(s)]

\* the step neither returns nor touches the progress bar
Stay == UNCHANGED <<site, progress, updated>>

\* lines 53-72: a pool thread takes the next queued task; tick, path, makedirs, isfile,
\* and the branch on args.type
Start(i) ==
    /\ mainpc = "loop"
    /\ pc[i] = "pending"
    /\ \A j \in 1..(i - 1) : pc[j] # "pending"
    /\ Cardinality(Running) < num_workers
    /\ elapsed' = [elapsed EXCEPT ![i] = 0]
    /\ LET tile == tiles[i]
           p == TilePath(tile)
           r == ResolveURL(tile, args.type, args.url)
       IN  \E mk \in makedirs(DirOf(p), dirs) :
             IF mk = "OSError"
             THEN /\ Raise(i)
                  /\ Stay
                  /\ UNCHANGED <<dirs, path, url, tiles>>
             ELSE /\ dirs' = dirs \cup {DirOf(p)}
                  /\ path' = [path EXCEPT ![i] = p]
                  /\ IF isfile(p, files)
                     THEN /\ ReturnAt(i, "present", [tile |-> i, url |-> None, ok |-> TRUE])
                          /\ UNCHANGED <<url, tiles>>
                     ELSE /\ tiles' = [tiles EXCEPT ![i] = r.tile]
                          /\ IF r.status = "unsupported"
                             THEN /\ ReturnAt(i, "unsupported",
                                              [tile |-> i, url |-> None, ok |-> FALSE])
                                  /\ UNCHANGED url
                             ELSE IF r.status = "KeyError"
                             THEN /\ Raise(i)
                                  /\ Stay
                                  /\ UNCHANGED url
                             ELSE /\ pc' = [pc EXCEPT ![i] = "fetch"]
                                  /\ url' = [url EXCEPT ![i] = r.url]
                                  /\ Stay
                                  /\ UNCHANGED result
    /\ Ends(i)
    /\ UNCHANGED <<args, csv, files, files0, requests, reqsNow, wrote, sent, pn,
                   consumed, already_dl, log, mainpc, preview, prevFetched, harnessVars>>

\* lines 74-76: fetch_image issues the GET; a falsy result is a failed request
Fetch(i) ==
    /\ pc[i] = "fetch"
    /\ requests' = [requests EXCEPT ![i] = @ + 1]
    /\ sent' = [sent EXCEPT ![i] = url[i]]
    /\ reqsNow' = reqsNow + 1
    /\ \E res \in BOOLEAN :
         IF ~res
         THEN ReturnAt(i, "failed", FailedWith(i, url[i]))
         ELSE /\ pc' = [pc EXCEPT ![i] = "save"]
              /\ Stay
              /\ UNCHANGED result
    /\ Ends(i)
    /\ UNCHANGED <<args, csv, tiles, files, files0, dirs, elapsed, path, url, wrote, pn,
                   consumed, already_dl, log, mainpc, preview, prevFetched, harnessVars>>

\* what Image.open(res) followed by image.save(path, optimize=True) can do:
\*   "saved"    the image is written at path
\*   "OSError"  OSError before the file at path is opened for writing
\*   "partial"  OSError while writing: save has already created the file at path
\*   "error"    an exception that is not an OSError (ValueError: unknown file extension)
SaveOutcomes == {"saved", "OSError", "partial", "error"}

\* the files after image.save(path) ended with outcome out
saveElsewhere(fs, p, out) == fs
save(fs, p, out) == IF out \in {"saved", "partial"} THEN fs \cup {p} ELSE fs

\* lines 78-84
Save(i) ==
    /\ pc[i] = "save"
    /\ \E out \in SaveOutcomes :
         /\ files' = save(files, path[i], out)
         /\ wrote' = [wrote EXCEPT ![i] = IF out = "saved" THEN "image"
                                           ELSE IF out = "partial" THEN "partial" ELSE @]
         /\ IF out = "saved"
            THEN /\ pc' = [pc EXCEPT ![i] = "pace"]
                 /\ Stay
                 /\ UNCHANGED result
            ELSE IF out = "error"
            THEN Raise(i) /\ Stay
            ELSE ReturnAt(i, "oserror", FailedWith(i, url[i]))
    /\ Ends(i)
    /\ UNCHANGED <<args, csv, tiles, files0, dirs, elapsed, path, url, requests, reqsNow,
                   sent, pn, consumed, already_dl, log, mainpc, preview, prevFetched,
                   harnessVars>>

\* lines 86-90: the sleep is over once time_per_worker has passed since tick
PacingSkipped(i) == TRUE
PacingDone(i) == elapsed[i] >= time_per_worker

\* lines 86-92: the task sleeps until time_per_worker has passed since tick, then enters
\* progress.update(), which reads progress.n
Pace(i) ==
    /\ pc[i] = "pace"
    /\ PacingDone(i)
    /\ IF ProgressAt("fetched") = 1
       THEN /\ pc' = [pc EXCEPT ![i] = "update"]
            /\ pn' = [pn EXCEPT ![i] = progress]
            /\ UNCHANGED <<result, site>>
       ELSE /\ Return(i, [tile |-> i, url |-> url[i], ok |-> TRUE])
            /\ site' = [site EXCEPT ![i] = "fetched"]
            /\ UNCHANGED pn
    /\ Ends(i)
    /\ UNCHANGED <<args, csv, tiles, files, files0, dirs, elapsed, path, url, requests,
                   reqsNow, wrote, sent, updated, progress, consumed, already_dl, log,
                   mainpc, preview, prevFetched, harnessVars>>

\* lines 92-94: progress.update() stores n + 1 (tqdm's `self.n += n` is a read followed
\* by a write, with no lock), and the task returns
Update(i) ==
    /\ pc[i] = "update"
    /\ progress' = pn[i] + 1
    /\ pn' = [pn EXCEPT ![i] = 0]
    /\ updated' = [updated EXCEPT ![i] = @ + 1]
    /\ Return(i, [tile |-> i, url |-> url[i], ok |-> TRUE])
    /\ site' = [site EXCEPT ![i] = "fetched"]
    /\ Ends(i)
    /\ UNCHANGED <<args, csv, tiles, files, files0, dirs, elapsed, path, url, requests,
                   reqsNow, wrote, sent, consumed, already_dl, log, mainpc, preview,
                   prevFetched, harnessVars>>

\* one second passes
Tick ==
    /\ reqsNow' = 0
    /\ elapsed' = [i \in Tasks |->
                     IF i \in Running /\ elapsed[i] < time_per_worker
                     THEN elapsed[i] + 1 ELSE elapsed[i]]
    /\ UNCHANGED <<args, csv, tiles, files, files0, dirs, pc, path, url, result, requests,
                   wrote, finishOrder, site, sent, updated, pn, progress, consumed,
                   already_dl, log, mainpc, preview, prevFetched, harnessVars>>

\* ---- main -------------------------------------------------------------------
\* executor.map yields the results in the order of the submitted tiles
NextResultCompleted ==
    IF \E i \in Tasks : pc[i] \in {"returned", "raised"} /\ \A k \in 1..Len(consumed) : consumed[k] # i
    THEN CHOOSE i \in Tasks : /\ pc[i] \in {"returned", "raised"}
                              /\ \A k \in 1..Len(consumed) : consumed[k] # i
                              /\ \A j \in Tasks :
                                    (pc[j] \in {"returned", "raised"}
                                     /\ \A k \in 1..Len(consumed) : consumed[k] # j) => j <= i
    ELSE Len(consumed) + 1
NextResult == Len(consumed) + 1

\* line 97: the results counted as already downloaded
CountsWithoutURL(r) == r.url = None
CountsAsPresent(r) == r.url = None /\ r.ok

WarningLine(r) == [kind |-> "Warning", tile |-> tiles[r.tile], url |-> r.url, n |-> 0]
NoticeLine(n) == [kind |-> "Notice", tile |-> 0, url |-> None, n |-> n]

\* lines 96-100: one iteration of the for loop; a task that raised re-raises here, the
\* map generator cancels the futures that have not started
Consume ==
    /\ mainpc = "loop"
    /\ Len(consumed) < Len(csv)
    /\ LET k == NextResult
       IN  /\ k \in Tasks
           /\ \/ /\ pc[k] = "returned"
                 /\ consumed' = Append(consumed, k)
                 /\ already_dl' = IF CountsAsPresent(result[k])
                                  THEN already_dl + 1 ELSE already_dl
                 /\ log' = IF ~result[k].ok THEN Append(log, WarningLine(result[k])) ELSE log
                 /\ UNCHANGED <<pc, mainpc>>
              \/ /\ pc[k] = "raised"
                 /\ mainpc' = "unwinding"
                 /\ pc' = [i \in Tasks |-> IF pc[i] = "pending" THEN "cancelled" ELSE pc[i]]
                 /\ UNCHANGED <<consumed, already_dl, log>>
    /\ UNCHANGED <<args, csv, tiles, files, files0, dirs, elapsed, path, url, result,
                   requests, reqsNow, wrote, finishOrder, site, sent, updated, pn, progress,
                   preview, prevFetched, harnessVars>>

\* the with blocks are left after the exception once the running tasks have ended
Unwind ==
    /\ mainpc = "unwinding"
    /\ Running = {}
    /\ mainpc' = "raised"
    /\ UNCHANGED <<args, csv, tiles, files, files0, dirs, taskVars, reqsNow, progress,
                   consumed, already_dl, log, preview, prevFetched, harnessVars>>

\* lines 102-106: the loop is exhausted; summary line and the optional leaflet page
Finish ==
    /\ mainpc = "loop"
    /\ Len(consumed) = Len(csv)
    /\ log' = IF already_dl # 0 THEN Append(log, NoticeLine(already_dl)) ELSE log
    /\ \E leaflet \in BOOLEAN : preview' = IF leaflet THEN tiles ELSE <<>>
    /\ mainpc' = "done"
    /\ UNCHANGED <<args, csv, tiles, files, files0, dirs, taskVars, reqsNow, progress,
                   consumed, already_dl, prevFetched, harnessVars>>

\* the same command is run again on the same output directory
Rerun ==
    /\ mainpc \in {"done", "raised"}
    /\ prevFetched' = (mainpc = "done" /\ \A i \in Tasks : Fetched(result[i]))
    /\ tiles' = csv
    /\ files0' = files
    /\ pc' = [i \in Tasks |-> "pending"]
    /\ elapsed' = [i \in Tasks |-> 0]
    /\ path' = [i \in Tasks |-> NoPath]
    /\ url' = [i \in Tasks |-> None]
    /\ result' = [i \in Tasks |-> NoResult]
    /\ requests' = [i \in Tasks |-> 0]
    /\ wrote' = [i \in Tasks |-> "nothing"]
    /\ finishOrder' = <<>>
    /\ site' = [i \in Tasks |-> "none"]
    /\ sent' = [i \in Tasks |-> None]
    /\ updated' = [i \in Tasks |-> 0]
    /\ pn' = [i \in Tasks |-> 0]
    /\ reqsNow' = 0
    /\ progress' = 0
    /\ consumed' = <<>>
    /\ already_dl' = 0
    /\ log' = <<BeginLine>>
    /\ mainpc' = "loop"
    /\ preview' = <<>>
    /\ UNCHANGED <<args, csv, files, dirs, harnessVars>>

Next ==
    \/ \E i \in Tasks : Start(i)
    \/ \E i \in Tasks : Fetch(i)
    \/ \E i \in Tasks : Save(i)
    \/ \E i \in Tasks : Pace(i)
    \/ \E i \in Tasks : Update(i)
    \/ Tick
    \/ Consume
    \/ Unwind
    \/ Finish
    \/ Rerun

Spec == Init /\ [][Next]_vars

\* ---- resolver harness: the branch of lines 63-72 applied repeatedly to one tile ----
ResolverTiles ==
    {t \in [x : 0..(2^(Zoom + 1) - 1), y : 0..(2^(Zoom + 1) - 1), z : 0..(Zoom + 1)] :
        t.x < 2^(t.z) /\ t.y < 2^(t.z)}

InitResolve ==
    /\ args \in [type : Types, rate : {1}, url : Templates]
    /\ rtile \in ResolverTiles
    /\ rres = <<>>
    /\ csv = <<>>
    /\ tiles = <<>>
    /\ files0 = {}
    /\ files = {}
    /\ dirs = {}
    /\ FreshTasks(0)
    /\ reqsNow = 0
    /\ progress = 0
    /\ consumed = <<>>
    /\ already_dl = 0
    /\ log = <<>>
    /\ mainpc = "resolve"
    /\ preview = <<>>
    /\ prevFetched = FALSE

Resolve ==
    /\ mainpc = "resolve"
    /\ Len(rres) < MaxResolves
    /\ LET r == ResolveURL(rtile, args.type, args.url)
       IN  /\ rtile' = r.tile
           /\ rres' = Append(rres, [given |-> rtile, url |-> r.url, status |-> r.status])
    /\ UNCHANGED <<args, csv, tiles, files, files0, dirs, taskVars, reqsNow, progress,
                   consumed, already_dl, log, mainpc, preview, prevFetched>>

SpecResolve == InitResolve /\ [][Resolve]_vars

\* ---- properties -----------------------------------------------------------------
Present0(i) == TilePath(csv[i]) \in files0
Warnings == SelectSeq(log, LAMBDA l : l.kind = "Warning")
IsFailedTask(k) == ~result[k].ok
FailedConsumed == SelectSeq(consumed, IsFailedTask)
Distinct == \A i, j \in Tasks : i # j => csv[i] # csv[j]
RunEnded == mainpc \in {"done", "raised"}
FetchedTasks == {i \in Tasks : pc[i] = "returned" /\ Fetched(result[i])}

\* C1: a tile whose output file exists when the run starts gets no network request and,
\* when its task has run, the outcome (tile, no URL, ok), for every service type and
\* whatever the other tasks do.
C1_PresentIsSkipped ==
    \A i \in Tasks :
        Present0(i) =>
            /\ requests[i] = 0
            /\ pc[i] \in {"pending", "cancelled", "returned"}
            /\ pc[i] = "returned" => result[i] = [tile |-> i, url |-> None, ok |-> TRUE]

C1_Witness ==
    \E i, j \in Tasks :
        /\ Present0(i) /\ pc[i] = "returned"
        /\ ~Present0(j) /\ requests[j] > 0
        /\ args.type = "TMS"

\* C2: the results are consumed in submission order (the k-th result consumed is that of
\* the k-th tile) and the warning lines of the log are those of the failed results
\* consumed, in that order, whatever the order in which the tasks ended.
C2_SubmissionOrder ==
    /\ \A k \in 1..Len(consumed) : consumed[k] = k
    /\ Len(Warnings) = Len(FailedConsumed)
    /\ \A k \in 1..Len(Warnings) :
          /\ Warnings[k].tile = tiles[FailedConsumed[k]]
          /\ Warnings[k].url = result[FailedConsumed[k]].url

C2_Witness ==
    /\ Len(consumed) = 2
    /\ finishOrder = <<2, 1>>
    /\ Len(Warnings) = 2

\* C3: in no second are more than args.rate requests issued.
C3_RateIsMaximum == reqsNow <= args.rate

\* C4: a finished run over N distinct tiles, none present at the start, a request issued
\* for each, M of them not fetched, ended normally with N - M files and M warning lines.
C4_RunCounts ==
    (RunEnded /\ Distinct /\ files0 = {} /\ \A i \in Tasks : requests[i] = 1) =>
        /\ mainpc = "done"
        /\ Cardinality(files) = Cardinality(FetchedTasks)
        /\ Len(Warnings) = Len(csv) - Cardinality(FetchedTasks)

\* C5: in a run that follows a run in which every tile ended Fetched, no request is
\* issued, no task raises, every outcome is AlreadyPresent, and the run ends normally
\* with all N tiles counted as already downloaded.
C5_RerunAllPresent ==
    prevFetched =>
        /\ \A i \in Tasks :
              /\ requests[i] = 0
              /\ pc[i] \in {"pending", "returned"}
              /\ pc[i] = "returned" => AlreadyPresent(result[i])
        /\ mainpc \in {"loop", "done"}
        /\ mainpc = "done" => already_dl = Len(csv)

C5_Witness ==
    /\ prevFetched
    /\ mainpc = "done"
    /\ args.type = "TMS"
    /\ Len(csv) = 2
    /\ csv[1] # csv[2]

\* C6: successive TMS resolutions of the same tile object yield the same URL.
C6_ResolveIsPure ==
    args.type = "TMS" =>
        \A j, k \in 1..Len(rres) :
            (rres[j].status = "ok" /\ rres[k].status = "ok") => rres[j].url = rres[k].url

\* C7: the tile objects keep the coordinates read from the tile list, and the tiles
\* handed to the preview step are those coordinates.
C7_TilesImmutable ==
    /\ \A i \in Tasks : tiles[i] = csv[i]
    /\ preview # <<>> => preview = csv

\* C8: no worker task raises, and main never leaves its loop by an exception.
C8_NoWorkerRaises ==
    /\ \A i \in Tasks : pc[i] # "raised"
    /\ mainpc \notin {"unwinding", "raised"}

C10_NoFileOnFailure ==
    \A p \in files :
        \/ p \in files0
        \/ \E i \in Tasks : path[i] = p /\ wrote[i] = "image"

\* ---- properties of the progress bar, the summary and the pool ---------------------
Returned(i) == pc[i] = "returned"
UpdatedTasks == {i \in Tasks : updated[i] > 0}
PresentTasks == {i \in Tasks : Returned(i) /\ site[i] = "present"}
Notices == SelectSeq(log, LAMBDA l : l.kind = "Notice")
WroteTasks == {i \in Tasks : wrote[i] # "nothing"}

\* C11: progress.update() is executed only by a task for which a request was issued:
\* never by a task that returned AlreadyPresent or that returned for an unsupported type.
C11_ProgressOnlyAfterRequest ==
    \A i \in Tasks :
        /\ updated[i] > 0 => requests[i] > 0
        /\ (Returned(i) /\ site[i] \in {"present", "unsupported"}) => updated[i] = 0
        /\ (Returned(i) /\ AlreadyPresent(result[i])) => updated[i] = 0

C11_Witness ==
    \E i, j \in Tasks :
        /\ Returned(i) /\ site[i] = "present" /\ updated[i] = 0
        /\ Returned(j) /\ site[j] = "fetched" /\ updated[j] = 1

\* C12: when the run has ended, every position of the tile list has a returned outcome
\* and the outcomes consumed are exactly those of positions 1..N, once each.
C12_DrainsAll ==
    RunEnded =>
        /\ \A i \in Tasks : Returned(i)
        /\ consumed = [k \in 1..Len(csv) |-> k]

\* C13 (as stated): after the loop a summary line is logged whose count is the number
\* of tiles that returned AlreadyPresent.
C13_SummaryLine ==
    mainpc = "done" =>
        \E l \in 1..Len(log) :
            log[l].kind = "Notice" /\ log[l].n = Cardinality(PresentTasks)

\* C13 (amended): already_dl counts the consumed outcomes that are AlreadyPresent, and
\* after the loop a single summary line with that count is logged when the count is
\* not zero, and none when it is zero.
C13_SummaryLineIfAny ==
    /\ already_dl = Cardinality({k \in 1..Len(consumed) : site[consumed[k]] = "present"})
    /\ mainpc = "done" =>
          Notices = IF Cardinality(PresentTasks) > 0
                    THEN <<NoticeLine(Cardinality(PresentTasks))>> ELSE <<>>
    /\ mainpc # "done" => Notices = <<>>

C13_Witness ==
    /\ mainpc = "done"
    /\ Len(Notices) = 1
    /\ \E i, j \in Tasks : site[i] = "present" /\ site[j] = "unsupported"

\* C14: a Failed outcome carries a URL exactly when a request was issued for the tile,
\* and the URL is the one that was requested.
C14_FailedURLIffRequested ==
    \A i \in Tasks :
        (Returned(i) /\ Failed(result[i])) =>
            /\ result[i].url # None <=> requests[i] > 0
            /\ requests[i] > 0 => result[i].url = sent[i]

C14_Witness ==
    \E i, j \in Tasks :
        /\ Returned(i) /\ site[i] = "failed" /\ result[i].url = sent[i]
        /\ Returned(j) /\ site[j] = "oserror" /\ result[j].url = sent[j]
        /\ sent[i] # sent[j]

\* C15 (as stated): a returned task executed progress.update() once when a request was
\* issued for it, and not at all otherwise.
C15_ProgressPerRequest ==
    \A i \in Tasks :
        Returned(i) => updated[i] = IF requests[i] > 0 THEN 1 ELSE 0

\* C15 (amended): a task executes progress.update() once when it ends Fetched and never
\* otherwise, so the number of updates executed is the number of Fetched tiles.
C15_ProgressPerFetched ==
    /\ \A i \in Tasks :
          /\ Returned(i) => updated[i] = IF Fetched(result[i]) THEN 1 ELSE 0
          /\ ~Returned(i) => updated[i] = 0
    /\ Cardinality(UpdatedTasks) = Cardinality(FetchedTasks)

C15_Witness ==
    /\ mainpc = "done"
    /\ \E i, j \in Tasks :
          /\ site[i] = "failed" /\ requests[i] = 1 /\ updated[i] = 0
          /\ site[j] = "fetched" /\ requests[j] = 1 /\ updated[j] = 1

\* C16: the tasks in progress (started, not yet ended, the pacing sleep included) never
\* number more than args.rate.
C16_PoolBound == Cardinality(Running) <= args.rate

C16_Witness ==
    /\ Cardinality(Running) = args.rate
    /\ \E i, j \in Tasks : pc[i] = "pace" /\ elapsed[i] < time_per_worker /\ pc[j] = "pending"

\* C17: a task that ended Fetched returned at least time_per_worker after its tick; a
\* task that ended AlreadyPresent returned without any time passing since its tick.
C17_Pacing ==
    \A i \in Tasks :
        /\ (Returned(i) /\ Fetched(result[i])) => elapsed[i] >= time_per_worker
        /\ (Returned(i) /\ AlreadyPresent(result[i])) => elapsed[i] = 0

C17_Witness ==
    \E i, j \in Tasks :
        /\ Returned(i) /\ Fetched(result[i]) /\ elapsed[i] = 1
        /\ Returned(j) /\ AlreadyPresent(result[j]) /\ elapsed[j] = 0

\* C18: when the run has ended the progress counter equals the number of tasks that
\* executed progress.update().
C18_NoLostUpdate == RunEnded => progress = Cardinality(UpdatedTasks)

\* C19 (as stated): no two tasks issue a request for, or write, the same output path.
C19_OncePerPath ==
    \A i, j \in Tasks :
        (i # j /\ path[i] # NoPath /\ path[i] = path[j]) =>
            /\ ~(requests[i] > 0 /\ requests[j] > 0)
            /\ ~(wrote[i] # "nothing" /\ wrote[j] # "nothing")

\* C19 (amended): a task issues at most one request and writes at most once, at its own
\* path; when the tiles of the list are pairwise distinct, no two tasks have the same
\* path, so each path is requested and written at most once.
C19_OncePerPosition ==
    /\ \A i \in Tasks :
          /\ requests[i] <= 1
          /\ wrote[i] # "nothing" => (requests[i] = 1 /\ path[i] \in files)
    /\ Distinct =>
          \A i, j \in Tasks : (i # j /\ path[i] # NoPath) => path[i] # path[j]

C19_Witness ==
    /\ Distinct
    /\ Len(csv) = 2
    /\ args.type = "TMS"
    /\ \A i \in Tasks : requests[i] = 1 /\ wrote[i] = "image" /\ Returned(i)

\* C20 (as stated): the files that existed before the run are still there, the file of
\* a tile reported AlreadyPresent existed before the run and no task wrote it, and the
\* files created are at paths of tiles of the list.  Stated for the runs in which no
\* task raised and no save failed after creating its file.
C20_PresentUntouched ==
    (\A k \in Tasks : pc[k] # "raised" /\ wrote[k] # "partial") =>
        /\ files0 \subseteq files
        /\ \A i \in PresentTasks :
              path[i] \in files0 /\ \A j \in WroteTasks : path[j] # path[i]
        /\ \A p \in files \ files0 : \E i \in Tasks : p = TilePath(csv[i])

\* C20 (amended): the files that existed before the run are still there and no task
\* writes at one of them; a tile is reported AlreadyPresent only when its file existed
\* before the run or another task of the run for the same path wrote it; the files
\* created are at paths of tiles of the list.
C20_OldFilesUntouched ==
    /\ files0 \subseteq files
    /\ \A j \in WroteTasks : path[j] \notin files0
    /\ \A i \in PresentTasks :
          \/ path[i] \in files0
          \/ \E j \in WroteTasks : j # i /\ path[j] = path[i]
    /\ \A p \in files \ files0 : \E i \in Tasks : p = TilePath(csv[i])

C20_Witness ==
    /\ mainpc = "done"
    /\ args.type = "TMS"
    /\ \E i, j \in Tasks :
          /\ site[i] = "present" /\ path[i] \in files0
          /\ wrote[j] = "image" /\ path[j] # path[i]

====
